---- MODULE Spec2Model ----
(***************************************************************************)
(* Model of the source-file dependency resolver of src/metadata.rs:        *)
(* get_c_source_files, find_file, get_source_files_from_makefile,          *)
(* get_paths_from_line, path_to_file_name, normalize_makefile and          *)
(* collect_source_files.                                                   *)
(*                                                                         *)
(* A Rust &str / String is a sequence of one-character strings, a Path is  *)
(* a sequence of components (each component a string in that sense), a     *)
(* repository tree is a set of entries.                                    *)
(***************************************************************************)
EXTENDS Integers, Sequences, FiniteSets, TLC

(***************************************************************************)
(* Characters and string primitives of the Rust standard library           *)
(***************************************************************************)
SP == " "
TAB == "\t"
BSL == "\\"
SLASH == "/"
QUOTE == "\""

\* char::is_whitespace, restricted to the characters that occur in a line
IsWhitespace(c) == c \in {SP, TAB}

Range(s) == {s[i] : i \in 1..Len(s)}

\* str::trim_end: the string without its trailing whitespace
RECURSIVE trim_end(_)
trim_end(s) ==
    IF s = <<>> THEN <<>>
    ELSE IF IsWhitespace(s[Len(s)]) THEN trim_end(SubSeq(s, 1, Len(s) - 1))
    ELSE s

\* str::ends_with(char)
ends_with(s, c) == s # <<>> /\ s[Len(s)] = c

\* str::trim_end_matches(char): the string without EVERY trailing c
RECURSIVE trim_end_matches(_, _)
trim_end_matches(s, c) ==
    IF ends_with(s, c) THEN trim_end_matches(SubSeq(s, 1, Len(s) - 1), c)
    ELSE s

\* str::starts_with(&str)
starts_with(s, p) == Len(p) <= Len(s) /\ SubSeq(s, 1, Len(p)) = p

\* a whole-line-prefix match in place of the substring match
contains_AtStart(s, p) == Len(p) <= Len(s) /\ SubSeq(s, 1, Len(p)) = p

\* str::contains(&str): p occurs in s as a substring
contains(s, p) ==
    \E i \in 0..(Len(s) - Len(p)) : SubSeq(s, i + 1, i + Len(p)) = p

\* str::strip_prefix(&str) -> Option<&str>
str_strip_prefix(s, p) ==
    IF starts_with(s, p)
    THEN [some |-> TRUE, val |-> SubSeq(s, Len(p) + 1, Len(s))]
    ELSE [some |-> FALSE, val |-> <<>>]

\* str::strip_suffix(char) -> Option<&str>
str_strip_suffix(s, c) ==
    IF ends_with(s, c)
    THEN [some |-> TRUE, val |-> SubSeq(s, 1, Len(s) - 1)]
    ELSE [some |-> FALSE, val |-> <<>>]

\* the split of s at every character satisfying the separator test, empty
\* pieces dropped: cur is the piece being read
RECURSIVE SplitOn(_, _, _)
SplitOn(s, seps, cur) ==
    IF s = <<>> THEN (IF cur = <<>> THEN <<>> ELSE <<cur>>)
    ELSE IF s[1] \in seps
         THEN (IF cur = <<>> THEN <<>> ELSE <<cur>>) \o SplitOn(Tail(s), seps, <<>>)
         ELSE SplitOn(Tail(s), seps, Append(cur, s[1]))

\* str::split_whitespace: the non-empty maximal runs of non-whitespace
split_whitespace(s) == SplitOn(s, {SP, TAB}, <<>>)

\* Iterator::skip(n)
skip(seq, n) == IF Len(seq) <= n THEN <<>> ELSE SubSeq(seq, n + 1, Len(seq))

(***************************************************************************)
(* Paths (std::path::Path)                                                 *)
(***************************************************************************)
\* the component Component::RootDir of an absolute path
RootDir == <<SLASH>>
DOT == <<".">>
DOTDOT == <<".", ".">>

\* Path::components of a path written as a string: the pieces between
\* slashes, a leading slash as RootDir, and every "." dropped except a
\* leading one of a relative path
components(file) ==
    LET pieces == SplitOn(file, {SLASH}, <<>>)
        absolute == file # <<>> /\ file[1] = SLASH
        kept == SelectSeq(pieces, LAMBDA c : c # DOT)
        lead == IF absolute THEN <<RootDir>>
                ELSE IF pieces # <<>> /\ pieces[1] = DOT THEN <<DOT>>
                ELSE <<>>
    IN  lead \o kept

\* Path::file_name -> Option: the last component when it is a normal one
file_name(file) ==
    LET cs == components(file)
    IN  IF cs = <<>> \/ cs[Len(cs)] \in {RootDir, DOT, DOTDOT}
        THEN [some |-> FALSE, val |-> <<>>]
        ELSE [some |-> TRUE, val |-> cs[Len(cs)]]

\* the token as written, directory prefix and all
path_to_file_name_Whole(file) == [panic |-> FALSE, val |-> file]

\* path_to_file_name: file_name().and_then(to_str).unwrap(); the unwrap of
\* None panics, which is the result [panic |-> TRUE]
path_to_file_name(file) ==
    LET name == file_name(file)
    IN  [panic |-> ~name.some, val |-> name.val]

\* the path kept whole, prefix included
strip_prefix_Kept(path, base) == [ok |-> TRUE, val |-> path]

\* Path::strip_prefix(base) -> Result: the components after base
strip_prefix(path, base) ==
    IF Len(base) <= Len(path) /\ SubSeq(path, 1, Len(base)) = base
    THEN [ok |-> TRUE, val |-> SubSeq(path, Len(base) + 1, Len(path))]
    ELSE [ok |-> FALSE, val |-> <<>>]

(***************************************************************************)
(* normalize_makefile                                                      *)
(***************************************************************************)
\* a loop body that leaves the continuation backslash in the text
NormStep_KeepBackslash(st, line) ==
    LET trimmed == trim_end(line)
    IN  IF ends_with(trimmed, BSL)
        THEN [normalized |-> st.normalized,
              continued_line |-> st.continued_line \o trimmed]
        ELSE [normalized |-> Append(st.normalized, st.continued_line \o trimmed),
              continued_line |-> <<>>]

\* one turn of the loop `for line in lines`, on the pair of locals
NormStep(st, line) ==
    LET trimmed == trim_end(line)
    IN  IF ends_with(trimmed, BSL)
        THEN [normalized |-> st.normalized,
              continued_line |-> st.continued_line \o trim_end_matches(trimmed, BSL)]
        ELSE [normalized |-> Append(st.normalized, st.continued_line \o trimmed),
              continued_line |-> <<>>]

\* the flush after the loop and the returned vector
NormFlush(st) ==
    IF st.continued_line # <<>>
    THEN Append(st.normalized, st.continued_line)
    ELSE st.normalized

RECURSIVE NormLoop(_, _)
NormLoop(st, lines) ==
    IF lines = <<>> THEN st ELSE NormLoop(NormStep(st, lines[1]), Tail(lines))

normalize_makefile(lines) ==
    NormFlush(NormLoop([normalized |-> <<>>, continued_line |-> <<>>], lines))

(***************************************************************************)
(* The repository tree (what WalkDir and File::open see)                   *)
(*                                                                         *)
(* An entry is [rel, kind, perm, pos, lines]: its path relative to the     *)
(* repository as components, "file" or "dir", whether open/read_dir on it  *)
(* succeeds, its position in its directory's listing, and its lines.       *)
(* The entry with rel = <<>> is the repository directory itself.           *)
(***************************************************************************)
\* the `repository` argument: an absolute path, as components
Repository == <<RootDir, <<"c">>, <<"r">>>>

\* the literals of the source
MAKEFILE_AM == <<"M", "a", "k", "e", "f", "i", "l", "e", ".", "a", "m">>
LOCAL_MK == <<"l", "o", "c", "a", "l", ".", "m", "k">>
MAKEMODULE_AM == <<"M", "a", "k", "e", "m", "o", "d", "u", "l", "e", ".", "a", "m">>
SOURCES_SUFFIX == <<"_", "S", "O", "U", "R", "C", "E", "S">>
INCLUDE_PREFIX == <<"#", "i", "n", "c", "l", "u", "d", "e", " ", "\"">>

\* the array with "Makefile" as a fourth name
FragmentNames_WithMakefile ==
    <<MAKEFILE_AM, LOCAL_MK, MAKEMODULE_AM,
      <<"M", "a", "k", "e", "f", "i", "l", "e">>>>

\* the array ["Makefile.am", "local.mk", "Makemodule.am"]
FragmentNames == <<MAKEFILE_AM, LOCAL_MK, MAKEMODULE_AM>>

\* DirEntry::path of an entry of the walk
EntryPath(e) == Repository \o e.rel

\* DirEntry::file_name: the last component of the entry's path
EntryName(e) == LET p == EntryPath(e) IN p[Len(p)]

Children(tree, d) ==
    {e \in tree : /\ Len(e.rel) = Len(d.rel) + 1
                  /\ SubSeq(e.rel, 1, Len(d.rel)) = d.rel}

\* a directory's listing: its entries by position, in the order read_dir
\* gives them (rev: the other order)
RECURSIVE Listing(_, _)
Listing(S, rev) ==
    IF S = {} THEN <<>>
    ELSE LET e == CHOOSE x \in S : \A y \in S :
                     IF rev THEN x.pos >= y.pos ELSE x.pos <= y.pos
         IN  <<e>> \o Listing(S \ {e}, rev)

\* WalkDir::new(directory).into_iter().filter_map(|entry| entry.ok()): the
\* entry, then the walk of each of its children; a directory that cannot be
\* read yields itself and an Err, which filter_map drops
RECURSIVE WalkDir(_, _, _), WalkEach(_, _, _)
WalkDir(tree, e, rev) ==
    <<e>> \o (IF e.kind = "dir" /\ e.perm
              THEN WalkEach(tree, Listing(Children(tree, e), rev), rev)
              ELSE <<>>)
WalkEach(tree, es, rev) ==
    IF es = <<>> THEN <<>>
    ELSE WalkDir(tree, es[1], rev) \o WalkEach(tree, Tail(es), rev)

RootOf(tree) == CHOOSE e \in tree : e.rel = <<>>

MapPath(es) == [i \in 1..Len(es) |-> EntryPath(es[i])]

\* a match of every entry whose file name begins with file_name
find_file_Prefix(name, tree, rev) ==
    MapPath(SelectSeq(WalkDir(tree, RootOf(tree), rev),
                      LAMBDA e : starts_with(EntryName(e), name)))

\* find_file(file_name, repository): the paths of the walk's entries whose
\* file name is file_name, in walk order
find_file(name, tree, rev) ==
    MapPath(SelectSeq(WalkDir(tree, RootOf(tree), rev),
                      LAMBDA e : EntryName(e) = name))

\* the entry a path names, if any
EntryAt(tree, path) == {e \in tree : EntryPath(e) = path}

\* File::open(path): Ok for an entry that exists and may be opened (a
\* directory opens too, read-only)
CanOpen(tree, path) == \E e \in EntryAt(tree, path) : e.perm

\* reading lines from a directory gives Err(EISDIR) on every read: the
\* iterator Lines never ends and never yields an Ok item
IsDirectory(tree, path) == \E e \in EntryAt(tree, path) : e.kind = "dir"

\* the Ok items of read_lines(path) for a file that opened
LinesOf(tree, path) == (CHOOSE e \in EntryAt(tree, path) : TRUE).lines

RECURSIVE Flatten(_)
Flatten(ss) == IF ss = <<>> THEN <<>> ELSE ss[1] \o Flatten(Tail(ss))

(***************************************************************************)
(* get_paths_from_line, get_source_files_from_makefile                     *)
(***************************************************************************)
\* get_paths_from_line(line, repository): [panic, paths]; the iterator
\* panics in path_to_file_name at the first token without a file name
get_paths_from_line(line, tree, rev) ==
    LET tokens == skip(split_whitespace(line), 2)
        names == [i \in 1..Len(tokens) |-> path_to_file_name(tokens[i])]
    IN  IF \E i \in 1..Len(names) : names[i].panic
        THEN [panic |-> TRUE, paths |-> <<>>]
        ELSE [panic |-> FALSE,
              paths |-> Flatten([i \in 1..Len(names) |->
                                   find_file(names[i].val, tree, rev)])]

\* format!("{program_name}_SOURCES")
sources_key(program_name) == program_name \o SOURCES_SUFFIX

\* a fragment's lines taken whether or not it opens
get_source_files_from_makefile_ReadsLocked(tree, makefile_path, program_name, rev) ==
    IF IsDirectory(tree, makefile_path)
    THEN [kind |-> "hang", paths |-> <<>>]
    ELSE LET logical == normalize_makefile(LinesOf(tree, makefile_path))
             matching == SelectSeq(logical,
                            LAMBDA line : contains(line, sources_key(program_name)))
             each == [i \in 1..Len(matching) |->
                         get_paths_from_line(matching[i], tree, rev)]
         IN  IF \E i \in 1..Len(each) : each[i].panic
             THEN [kind |-> "panic", paths |-> <<>>]
             ELSE [kind |-> "ok",
                   paths |-> Flatten([i \in 1..Len(each) |-> each[i].paths])]

\* get_source_files_from_makefile: [kind, paths] with kind "ok" (the Vec
\* returned), "panic" (unwrap of None) or "hang" (lines of a directory)
get_source_files_from_makefile(tree, makefile_path, program_name, rev) ==
    IF ~CanOpen(tree, makefile_path)
    THEN [kind |-> "ok", paths |-> <<>>]
    ELSE IF IsDirectory(tree, makefile_path)
    THEN [kind |-> "hang", paths |-> <<>>]
    ELSE LET logical == normalize_makefile(LinesOf(tree, makefile_path))
             matching == SelectSeq(logical,
                            LAMBDA line : contains(line, sources_key(program_name)))
             each == [i \in 1..Len(matching) |->
                         get_paths_from_line(matching[i], tree, rev)]
         IN  IF \E i \in 1..Len(each) : each[i].panic
             THEN [kind |-> "panic", paths |-> <<>>]
             ELSE [kind |-> "ok",
                   paths |-> Flatten([i \in 1..Len(each) |-> each[i].paths])]

\* a pattern `#include ` + any delimiter + name + any delimiter
include_of_AnyDelimiter(line) ==
    LET n == Len(INCLUDE_PREFIX)
    IN  IF Len(line) > n /\ SubSeq(line, 1, n - 1) = SubSeq(INCLUDE_PREFIX, 1, n - 1)
        THEN [some |-> TRUE, val |-> SubSeq(line, n + 1, Len(line) - 1)]
        ELSE [some |-> FALSE, val |-> <<>>]

\* the quoted include target of a source line, as an Option
include_of(line) ==
    LET rest == str_strip_prefix(line, INCLUDE_PREFIX)
    IN  IF rest.some THEN str_strip_suffix(rest.val, QUOTE)
        ELSE [some |-> FALSE, val |-> <<>>]

(***************************************************************************)
(* The repositories and program names the resolver is run on               *)
(***************************************************************************)
N_diff == <<"d", "i", "f", "f">>
N_cmp_diff == <<"c", "m", "p", "_", "d", "i", "f", "f">>
N_diff_c == <<"d", "i", "f", "f", ".", "c">>
N_util_c == <<"u", "t", "i", "l", ".", "c">>
N_util_h == <<"u", "t", "i", "l", ".", "h">>
N_other_c == <<"o", "t", "h", "e", "r", ".", "c">>
N_sub == <<"s", "u", "b">>
N_sub_util_h == <<"s", "u", "b", "/", "u", "t", "i", "l", ".", "h">>
ASSIGN == <<" ", "=", " ">>
L_angle == <<"#", "i", "n", "c", "l", "u", "d", "e", " ", "<", "u", "t", "i", "l", ".", "h", ">">>
L_decl == <<"i", "n", "t", " ", "x", ";">>

\* the line `#include "<target>"`
Inc(target) == INCLUDE_PREFIX \o target \o <<QUOTE>>

\* the line `<program>_SOURCES = <tokens separated by one space>`
RECURSIVE JoinSp(_)
JoinSp(tokens) ==
    IF tokens = <<>> THEN <<>>
    ELSE IF Len(tokens) = 1 THEN tokens[1]
    ELSE tokens[1] \o <<SP>> \o JoinSp(Tail(tokens))
Decl(program, tokens) == program \o SOURCES_SUFFIX \o ASSIGN \o JoinSp(tokens)

File(rel, pos, lines) ==
    [rel |-> rel, kind |-> "file", perm |-> TRUE, pos |-> pos, lines |-> lines]
Locked(rel, pos, lines) ==
    [rel |-> rel, kind |-> "file", perm |-> FALSE, pos |-> pos, lines |-> lines]
Dir(rel, pos) ==
    [rel |-> rel, kind |-> "dir", perm |-> TRUE, pos |-> pos, lines |-> <<>>]
LockedDir(rel, pos) ==
    [rel |-> rel, kind |-> "dir", perm |-> FALSE, pos |-> pos, lines |-> <<>>]
RootEntry == Dir(<<>>, 0)

\* the largest number of lines of a generated source file
MaxIncl == 1

\* the sequences over S of length at most n
RECURSIVE SeqsUpTo(_, _)
SeqsUpTo(S, n) ==
    IF n = 0 THEN {<<>>}
    ELSE LET shorter == SeqsUpTo(S, n - 1)
         IN  shorter \cup {Append(s, x) : s \in {y \in shorter : Len(y) = n - 1}, x \in S}

DiffLines == {Inc(N_util_h), Inc(N_sub_util_h), L_angle}
UtilLines == {Inc(N_diff_c), Inc(N_util_h), L_decl}

\* Makefile.am = `diff_SOURCES = diff.c util.c` beside diff.c, util.c and
\* util.h
FlatTree(dc, uh) ==
    { RootEntry,
      File(<<MAKEFILE_AM>>, 1, <<Decl(N_diff, <<N_diff_c, N_util_c>>)>>),
      File(<<N_diff_c>>, 2, dc),
      File(<<N_util_c>>, 3, <<>>),
      File(<<N_util_h>>, 4, uh) }

\* the same with a second util.h in the directory sub
SubTree(dc, uh) ==
    FlatTree(dc, uh) \cup { Dir(<<N_sub>>, 5), File(<<N_sub, N_util_h>>, 1, <<L_decl>>) }

\* every include graph over diff.c and util.h within the bound
GraphRepos ==
    LET dcs == SeqsUpTo(DiffLines, MaxIncl)
        uhs == SeqsUpTo(UtilLines, MaxIncl)
    IN  {FlatTree(dc, uh) : dc \in dcs, uh \in uhs}
        \cup {SubTree(dc, uh) : dc \in dcs, uh \in uhs}

\* the scenario with `cmp_diff_SOURCES = other.c` in the same fragment
CmpDiffRepo ==
    { RootEntry,
      File(<<MAKEFILE_AM>>, 1, <<Decl(N_diff, <<N_diff_c, N_util_c>>),
                                 Decl(N_cmp_diff, <<N_other_c>>)>>),
      File(<<N_diff_c>>, 2, <<Inc(N_util_h)>>),
      File(<<N_util_c>>, 3, <<>>),
      File(<<N_util_h>>, 4, <<>>),
      File(<<N_other_c>>, 5, <<Inc(N_util_h)>>) }

\* three fragments declaring overlapping sources, one token twice on a line,
\* one declaration continued over two physical lines
OverlapRepo ==
    { RootEntry,
      File(<<MAKEFILE_AM>>, 1, <<Decl(N_diff, <<N_diff_c, N_diff_c>>)>>),
      File(<<LOCAL_MK>>, 2, <<Decl(N_diff, <<N_diff_c>>) \o <<SP, BSL>>,
                              <<TAB>> \o N_util_c>>),
      File(<<N_diff_c>>, 3, <<Inc(N_util_h)>>),
      File(<<N_util_c>>, 4, <<Inc(N_util_h)>>),
      File(<<N_util_h>>, 5, <<>>),
      Dir(<<N_sub>>, 6),
      File(<<N_sub, MAKEMODULE_AM>>, 1, <<Decl(N_diff, <<N_util_c>>)>>) }

\* a source token without a file name (`..`) in the second fragment
DotDotRepo ==
    { RootEntry,
      File(<<MAKEFILE_AM>>, 1, <<Decl(N_diff, <<N_diff_c>>)>>),
      File(<<LOCAL_MK>>, 2, <<Decl(N_diff, <<N_util_c, DOTDOT>>)>>),
      File(<<N_diff_c>>, 3, <<>>),
      File(<<N_util_c>>, 4, <<>>) }

\* an included header that cannot be opened
LockedHeaderRepo ==
    { RootEntry,
      File(<<MAKEFILE_AM>>, 1, <<Decl(N_diff, <<N_diff_c, N_util_c>>)>>),
      File(<<N_diff_c>>, 2, <<Inc(N_util_h)>>),
      File(<<N_util_c>>, 3, <<>>),
      Locked(<<N_util_h>>, 4, <<>>) }

\* a seed that cannot be opened, declared by the first of two fragments
LockedSeedRepo ==
    { RootEntry,
      File(<<MAKEFILE_AM>>, 1, <<Decl(N_diff, <<N_diff_c, N_util_c>>)>>),
      File(<<LOCAL_MK>>, 2, <<Decl(N_diff, <<N_util_h>>)>>),
      Locked(<<N_diff_c>>, 3, <<>>),
      File(<<N_util_c>>, 4, <<>>),
      File(<<N_util_h>>, 5, <<>>) }

\* a fragment that cannot be opened beside one that can
LockedFragmentRepo ==
    { RootEntry,
      Locked(<<MAKEFILE_AM>>, 1, <<Decl(N_diff, <<N_diff_c>>)>>),
      File(<<LOCAL_MK>>, 2, <<Decl(N_diff, <<N_util_c>>)>>),
      File(<<N_diff_c>>, 3, <<>>),
      File(<<N_util_c>>, 4, <<>>) }

\* a directory whose name is the name of an included header
DirHeaderRepo ==
    { RootEntry,
      File(<<MAKEFILE_AM>>, 1, <<Decl(N_diff, <<N_diff_c>>)>>),
      File(<<N_diff_c>>, 2, <<Inc(N_util_h)>>),
      Dir(<<N_util_h>>, 3) }

\* a directory whose name is the name of a fragment
DirFragmentRepo ==
    { RootEntry,
      Dir(<<MAKEFILE_AM>>, 1),
      File(<<N_diff_c>>, 2, <<>>) }

\* one seed, diff.c, which includes util.h, which includes diff.c
CycleRepo ==
    { RootEntry,
      File(<<MAKEFILE_AM>>, 1, <<Decl(N_diff, <<N_diff_c>>)>>),
      File(<<N_diff_c>>, 2, <<Inc(N_util_h)>>),
      File(<<N_util_h>>, 3, <<Inc(N_diff_c)>>) }

\* no fragment at all
NoFragmentRepo ==
    { RootEntry,
      File(<<N_diff_c>>, 1, <<Inc(N_util_h)>>),
      File(<<N_util_h>>, 2, <<>>) }

\* lines that are not of the form `#include "<name>"`: a macro include, a
\* quoted include after a blank, a quoted include before a blank
L_macro == <<"#", "i", "n", "c", "l", "u", "d", "e", " ", "U", "T", "I", "L", "_", "H">>
L_indented == <<SP>> \o Inc(N_util_h)
L_trailing == Inc(N_util_h) \o <<SP>>

\* diff.c refers to util.h in each of those ways and with angle brackets
AngleRepo ==
    { RootEntry,
      File(<<MAKEFILE_AM>>, 1, <<Decl(N_diff, <<N_diff_c>>)>>),
      File(<<N_diff_c>>, 2, <<L_angle, L_macro, L_indented, L_trailing, L_decl>>),
      File(<<N_util_h>>, 3, <<>>) }

N_Util_h == <<"U", "t", "i", "l", ".", "h">>
N_util_hpp == N_util_h \o <<"p", "p">>
N_xutil_h == <<"x">> \o N_util_h
N_locked == <<"l", "o", "c", "k", "e", "d">>

\* names that differ from util.h by case, by a suffix and by a prefix, a
\* util.h two directories down, and one inside a directory that cannot be
\* listed
LocatorRepo ==
    { RootEntry,
      File(<<MAKEFILE_AM>>, 1, <<Decl(N_diff, <<N_diff_c>>)>>),
      File(<<N_diff_c>>, 2, <<Inc(N_util_h)>>),
      File(<<N_util_h>>, 3, <<>>),
      File(<<N_Util_h>>, 4, <<>>),
      File(<<N_util_hpp>>, 5, <<>>),
      File(<<N_xutil_h>>, 6, <<>>),
      Dir(<<N_sub>>, 7),
      Dir(<<N_sub, N_sub>>, 1),
      File(<<N_sub, N_sub, N_util_h>>, 1, <<>>),
      LockedDir(<<N_locked>>, 8),
      File(<<N_locked, N_util_h>>, 1, <<>>) }

N_makefile_am == <<"m", "a", "k", "e", "f", "i", "l", "e", ".", "a", "m">>
N_Makefile == <<"M", "a", "k", "e", "f", "i", "l", "e">>
N_Makefile_am_in == MAKEFILE_AM \o <<".", "i", "n">>

\* the declaration of diff's sources in files that are not named as a
\* fragment is
OtherNamesRepo ==
    { RootEntry,
      File(<<N_makefile_am>>, 1, <<Decl(N_diff, <<N_diff_c>>)>>),
      File(<<N_Makefile>>, 2, <<Decl(N_diff, <<N_diff_c>>)>>),
      File(<<N_Makefile_am_in>>, 3, <<Decl(N_diff, <<N_diff_c>>)>>),
      File(<<N_diff_c>>, 4, <<Inc(N_util_h)>>),
      File(<<N_util_h>>, 5, <<>>) }

\* the ways of writing the assignment of `diff_SOURCES = diff.c util.c`
Assignments ==
    { <<" ", "=", " ">>, <<"=">>, <<" ", "=">>, <<"=", " ">>,
      <<" ", "+", "=", " ">>, <<" ", " ", "=", "\t">> }

SpacingRepo(assign) ==
    { RootEntry,
      File(<<MAKEFILE_AM>>, 1,
           <<N_diff \o SOURCES_SUFFIX \o assign \o JoinSp(<<N_diff_c, N_util_c>>)>>),
      File(<<N_diff_c>>, 2, <<>>),
      File(<<N_util_c>>, 3, <<>>) }

SpacingRepos == {SpacingRepo(assign) : assign \in Assignments}

N_src_diff_c == <<"s", "r", "c", "/">> \o N_diff_c
N_missing_c == <<"m", "i", "s", "s", "i", "n", "g", ".", "c">>

\* tokens with a directory prefix, without any file, and with two files
PrefixRepo ==
    { RootEntry,
      File(<<MAKEFILE_AM>>, 1, <<Decl(N_diff, <<N_src_diff_c, N_missing_c, N_util_h>>)>>),
      File(<<N_diff_c>>, 2, <<>>),
      File(<<N_util_h>>, 3, <<>>),
      Dir(<<N_sub>>, 4),
      File(<<N_sub, N_util_h>>, 1, <<>>) }

\* the second of two fragments cannot be opened
LockedLocalMkRepo ==
    { RootEntry,
      File(<<MAKEFILE_AM>>, 1, <<Decl(N_diff, <<N_diff_c>>)>>),
      Locked(<<LOCAL_MK>>, 2, <<Decl(N_diff, <<N_util_c>>)>>),
      File(<<N_diff_c>>, 3, <<>>),
      File(<<N_util_c>>, 4, <<>>) }

\* a recognised fragment that cannot be opened
LockedFragments(tree) ==
    {f \in tree : EntryName(f) \in Range(FragmentNames) /\ ~f.perm}

\* the same repositories without the fragment that cannot be opened
AbsentFragmentRepos ==
    { LockedFragmentRepo \ LockedFragments(LockedFragmentRepo),
      LockedLocalMkRepo \ LockedFragments(LockedLocalMkRepo) }

N_a == <<"a">>
N_b == <<"b">>

\* two fragments of one name in two directories: the seed of the one cannot
\* be opened, the seed of the other is a directory
OrderHangRepo ==
    { RootEntry,
      Dir(<<N_a>>, 1),
      File(<<N_a, MAKEFILE_AM>>, 1, <<Decl(N_diff, <<N_diff_c>>)>>),
      Locked(<<N_a, N_diff_c>>, 2, <<>>),
      Dir(<<N_b>>, 2),
      File(<<N_b, MAKEFILE_AM>>, 1, <<Decl(N_diff, <<N_util_h>>)>>),
      Dir(<<N_b, N_util_h>>, 2) }

\* the same with a token without a file name in the other fragment
OrderPanicRepo ==
    { RootEntry,
      Dir(<<N_a>>, 1),
      File(<<N_a, MAKEFILE_AM>>, 1, <<Decl(N_diff, <<N_diff_c>>)>>),
      Locked(<<N_a, N_diff_c>>, 2, <<>>),
      Dir(<<N_b>>, 2),
      File(<<N_b, MAKEFILE_AM>>, 1, <<Decl(N_diff, <<DOTDOT>>)>>) }

ScenarioRepos ==
    { CmpDiffRepo, OverlapRepo, DotDotRepo, LockedHeaderRepo, LockedSeedRepo,
      LockedFragmentRepo, DirHeaderRepo, DirFragmentRepo, CycleRepo,
      NoFragmentRepo, AngleRepo, LocatorRepo, OtherNamesRepo, PrefixRepo,
      LockedLocalMkRepo, OrderHangRepo, OrderPanicRepo }
      \cup SpacingRepos \cup AbsentFragmentRepos

Repos == GraphRepos \cup ScenarioRepos
ProgramNames == {N_diff, N_cmp_diff}

(***************************************************************************)
(* The resolver as a state machine: two consecutive calls of               *)
(* get_c_source_files(program_name, repository) on an unchanged tree       *)
(***************************************************************************)
VARIABLES
    repo,              \* the repository tree
    program_name,      \* the argument program_name
    rev,               \* which way read_dir lists a directory
    call,              \* 1 or 2: which call is running
    prev,              \* what the first call returned
    pc,                \* where get_c_source_files is
    source_files,      \* the HashSet source_files / visited, in insertion order
    makefiles,         \* the fragments the loop of line 60 has still to visit
    makefile_sources,  \* the seeds the loop of line 64 has still to visit
    stack,             \* the frames of collect_source_files, innermost last
    result,            \* what the running call returned
    reads,             \* the paths the call has opened at line 251, in order
    n_input,           \* normalize_makefile alone: the physical lines given
    n_rest,            \* the lines its loop has still to read
    n_st,              \* its locals normalized and continued_line
    n_pc,              \* where it is
    n_out              \* the vector it returned

norm == <<n_input, n_rest, n_st, n_pc, n_out>>

vars == <<repo, program_name, rev, call, prev, pc, source_files, makefiles,
          makefile_sources, stack, result, reads, norm>>

\* what no step of the resolver changes: its arguments, the tree, and the
\* run of normalize_makefile alone
env == <<repo, program_name, rev, norm>>

\* the locals of normalize_makefile at line 207
NormStart == [normalized |-> <<>>, continued_line |-> <<>>]

NormIdle ==
    /\ n_input = <<>>
    /\ n_rest = <<>>
    /\ n_st = NormStart
    /\ n_pc = "idle"
    /\ n_out = <<>>

NoResult == [returned |-> FALSE, ok |-> FALSE, files |-> <<>>]

\* the depth of recursion the thread's stack has room for
MaxDepth == 12

\* an insert that reports every value as absent
HashInsert_AlwaysFresh(visited, path) ==
    [fresh |-> TRUE,
     set |-> IF path \in Range(visited) THEN visited ELSE Append(visited, path)]

\* a push that keeps a value already present a second time
HashInsert_Push(visited, path) ==
    [fresh |-> path \notin Range(visited), set |-> Append(visited, path)]

\* HashSet::insert(value): [fresh, set], whether the value was absent (the
\* bool returned) and the set afterwards
HashInsert(visited, path) ==
    [fresh |-> path \notin Range(visited),
     set |-> IF path \in Range(visited) THEN visited ELSE Append(visited, path)]

\* a call collect_source_files(repository, visited, root) that has just begun
Frame(root) == [root |-> root, at |-> "enter", lines |-> <<>>, paths |-> <<>>]

Top == stack[Len(stack)]
Pop == SubSeq(stack, 1, Len(stack) - 1)
SetTop(f) == [stack EXCEPT ![Len(stack)] = f]

\* where control is once the innermost call has returned Ok(())
AfterReturn == IF Len(stack) = 1 THEN "seeds" ELSE "walk"

Init ==
    /\ repo \in Repos
    /\ program_name \in ProgramNames
    /\ rev \in BOOLEAN
    /\ call = 1
    /\ prev = NoResult
    /\ pc = "start"
    /\ source_files = <<>>
    /\ makefiles = <<>>
    /\ makefile_sources = <<>>
    /\ stack = <<>>
    /\ result = NoResult
    /\ reads = <<>>
    /\ NormIdle

\* a set shared by the calls in place of the fresh one of line 53
Start_SharedSet ==
    /\ pc = "start"
    /\ makefiles' = Flatten([i \in 1..Len(FragmentNames) |->
                               find_file(FragmentNames[i], repo, rev)])
    /\ pc' = "fragments"
    /\ reads' = <<>>
    /\ UNCHANGED <<env, call, prev, source_files, makefile_sources, stack, result>>

\* lines 53-58: the empty set and the list of fragments
Start ==
    /\ pc = "start"
    /\ source_files' = <<>>
    /\ makefiles' = Flatten([i \in 1..Len(FragmentNames) |->
                               find_file(FragmentNames[i], repo, rev)])
    /\ pc' = "fragments"
    /\ reads' = <<>>
    /\ UNCHANGED <<env, call, prev, makefile_sources, stack, result>>

\* lines 60-62: the next fragment's seeds
NextMakefile ==
    /\ pc = "fragments"
    /\ makefiles # <<>>
    /\ LET r == get_source_files_from_makefile(repo, Head(makefiles), program_name, rev)
       IN  /\ r.kind = "ok"
           /\ makefile_sources' = r.paths
    /\ makefiles' = Tail(makefiles)
    /\ pc' = "seeds"
    /\ UNCHANGED <<env, reads, call, prev, source_files, stack, result>>

\* line 170 reached from line 62: unwrap of None, the thread panics
MakefilePanic ==
    /\ pc = "fragments"
    /\ makefiles # <<>>
    /\ get_source_files_from_makefile(repo, Head(makefiles), program_name, rev).kind
          = "panic"
    /\ pc' = "panic"
    /\ UNCHANGED <<env, reads, call, prev, source_files, makefiles, makefile_sources,
                   stack, result>>

\* line 127 on a fragment that is a directory: filter_map(Result::ok) never
\* gets an item
MakefileHang ==
    /\ pc = "fragments"
    /\ makefiles # <<>>
    /\ get_source_files_from_makefile(repo, Head(makefiles), program_name, rev).kind
          = "hang"
    /\ pc' = "hang"
    /\ UNCHANGED <<env, reads, call, prev, source_files, makefiles, makefile_sources,
                   stack, result>>

\* lines 64-65: the call of collect_source_files on the next seed
NextSeed ==
    /\ pc = "seeds"
    /\ makefile_sources # <<>>
    /\ stack' = <<Frame(Head(makefile_sources))>>
    /\ makefile_sources' = Tail(makefile_sources)
    /\ pc' = "walk"
    /\ UNCHANGED <<env, reads, call, prev, source_files, makefiles, result>>

\* line 66: the seeds of this fragment are done
SeedsDone ==
    /\ pc = "seeds"
    /\ makefile_sources = <<>>
    /\ pc' = "fragments"
    /\ UNCHANGED <<env, reads, call, prev, source_files, makefiles, makefile_sources,
                   stack, result>>

\* a "not found" error in place of Ok for the empty set
ReturnOk_NotFound ==
    /\ pc = "fragments"
    /\ makefiles = <<>>
    /\ pc' = "done"
    /\ result' = [returned |-> TRUE, ok |-> source_files # <<>>, files |-> source_files]
    /\ UNCHANGED <<env, reads, call, prev, source_files, makefiles, makefile_sources, stack>>

\* line 69: Ok(source_files)
ReturnOk ==
    /\ pc = "fragments"
    /\ makefiles = <<>>
    /\ pc' = "done"
    /\ result' = [returned |-> TRUE, ok |-> TRUE, files |-> source_files]
    /\ UNCHANGED <<env, reads, call, prev, source_files, makefiles, makefile_sources, stack>>

\* a call that reads the file although its path is in the set already
EnterVisited_Reads ==
    /\ pc = "walk"
    /\ Top.at = "enter"
    /\ LET rel == strip_prefix(Top.root, Repository)
           inserted == HashInsert(source_files, rel.val)
       IN  /\ rel.ok
           /\ ~inserted.fresh
           /\ source_files' = inserted.set
    /\ CanOpen(repo, Top.root)
    /\ stack' = SetTop([Top EXCEPT !.at = "lines", !.lines = LinesOf(repo, Top.root)])
    /\ reads' = Append(reads, Top.root)
    /\ UNCHANGED <<env, call, prev, pc, makefiles, makefile_sources, result>>

\* lines 245-249: the path is in the set already, return Ok(())
EnterVisited ==
    /\ pc = "walk"
    /\ Top.at = "enter"
    /\ LET rel == strip_prefix(Top.root, Repository)
           inserted == HashInsert(source_files, rel.val)
       IN  /\ rel.ok
           /\ ~inserted.fresh
           /\ source_files' = inserted.set
    /\ stack' = Pop
    /\ pc' = AfterReturn
    /\ UNCHANGED <<env, reads, call, prev, makefiles, makefile_sources, result>>

\* lines 245-251: the path is new, it is inserted and the file opens
EnterRead ==
    /\ pc = "walk"
    /\ Top.at = "enter"
    /\ LET rel == strip_prefix(Top.root, Repository)
           inserted == HashInsert(source_files, rel.val)
       IN  /\ rel.ok
           /\ inserted.fresh
           /\ source_files' = inserted.set
    /\ CanOpen(repo, Top.root)
    /\ ~IsDirectory(repo, Top.root)
    /\ stack' = SetTop([Top EXCEPT !.at = "lines", !.lines = LinesOf(repo, Top.root)])
    /\ reads' = Append(reads, Top.root)
    /\ UNCHANGED <<env, call, prev, pc, makefiles, makefile_sources, result>>

\* lines 245-251 on a directory: it opens, and flatten() never gets an item
EnterHang ==
    /\ pc = "walk"
    /\ Top.at = "enter"
    /\ LET rel == strip_prefix(Top.root, Repository)
           inserted == HashInsert(source_files, rel.val)
       IN  /\ rel.ok
           /\ inserted.fresh
           /\ source_files' = inserted.set
    /\ CanOpen(repo, Top.root)
    /\ IsDirectory(repo, Top.root)
    /\ pc' = "hang"
    /\ reads' = Append(reads, Top.root)
    /\ UNCHANGED <<env, call, prev, makefiles, makefile_sources, stack, result>>

\* line 245 or line 251: strip_prefix(repository)? or read_lines(root)? is Err
EnterFail ==
    /\ pc = "walk"
    /\ Top.at = "enter"
    /\ LET rel == strip_prefix(Top.root, Repository)
           inserted == HashInsert(source_files, rel.val)
       IN  \/ /\ ~rel.ok
              /\ UNCHANGED source_files
           \/ /\ rel.ok
              /\ inserted.fresh
              /\ ~CanOpen(repo, Top.root)
              /\ source_files' = inserted.set
    /\ pc' = "raise"
    /\ UNCHANGED <<env, reads, call, prev, makefiles, makefile_sources, stack, result>>

\* lines 251-257: the next line, and the matches of its include target
ReadLine ==
    /\ pc = "walk"
    /\ Top.at = "lines"
    /\ Top.paths = <<>>
    /\ Top.lines # <<>>
    /\ LET include == include_of(Head(Top.lines))
       IN  stack' = SetTop([Top EXCEPT
                              !.lines = Tail(Top.lines),
                              !.paths = IF include.some
                                        THEN find_file(include.val, repo, rev)
                                        ELSE <<>>])
    /\ UNCHANGED <<env, reads, call, prev, pc, source_files, makefiles, makefile_sources,
                   result>>

\* lines 257-258: the recursive call on the next match; past the depth the
\* thread's stack has room for, the process is killed
Recurse ==
    /\ pc = "walk"
    /\ Top.at = "lines"
    /\ Top.paths # <<>>
    /\ IF Len(stack) < MaxDepth
       THEN /\ stack' = Append(SetTop([Top EXCEPT !.paths = Tail(Top.paths)]),
                               Frame(Head(Top.paths)))
            /\ pc' = "walk"
       ELSE /\ pc' = "overflow"
            /\ UNCHANGED stack
    /\ UNCHANGED <<env, reads, call, prev, source_files, makefiles, makefile_sources, result>>

\* line 263: Ok(())
Return ==
    /\ pc = "walk"
    /\ Top.at = "lines"
    /\ Top.paths = <<>>
    /\ Top.lines = <<>>
    /\ stack' = Pop
    /\ pc' = AfterReturn
    /\ UNCHANGED <<env, reads, call, prev, source_files, makefiles, makefile_sources, result>>

\* the ? of line 258: the caller returns the callee's Err
Propagate ==
    /\ pc = "raise"
    /\ Len(stack) > 1
    /\ stack' = Pop
    /\ UNCHANGED <<env, reads, call, prev, pc, source_files, makefiles, makefile_sources,
                   result>>

\* line 65 without its ?: the Err is dropped and the loop goes on
ReturnErr_Swallowed ==
    /\ pc = "raise"
    /\ Len(stack) = 1
    /\ stack' = <<>>
    /\ pc' = "seeds"
    /\ UNCHANGED <<env, reads, call, prev, source_files, makefiles, makefile_sources, result>>

\* the ? of line 65: get_c_source_files returns the Err
ReturnErr ==
    /\ pc = "raise"
    /\ Len(stack) = 1
    /\ stack' = <<>>
    /\ pc' = "done"
    /\ result' = [returned |-> TRUE, ok |-> FALSE, files |-> <<>>]
    /\ UNCHANGED <<env, reads, call, prev, source_files, makefiles, makefile_sources>>

\* the caller calls again with the same arguments
SecondCall ==
    /\ pc = "done"
    /\ call = 1
    /\ call' = 2
    /\ prev' = result
    /\ result' = NoResult
    /\ pc' = "start"
    /\ makefiles' = <<>>
    /\ makefile_sources' = <<>>
    /\ UNCHANGED <<env, reads, source_files, stack>>

Next ==
    \/ Start
    \/ NextMakefile
    \/ MakefilePanic
    \/ MakefileHang
    \/ NextSeed
    \/ SeedsDone
    \/ ReturnOk
    \/ EnterVisited
    \/ EnterRead
    \/ EnterHang
    \/ EnterFail
    \/ ReadLine
    \/ Recurse
    \/ Return
    \/ Propagate
    \/ ReturnErr
    \/ SecondCall

Spec == Init /\ [][Next]_vars

(***************************************************************************)
(* The same call made once more with the directories listed the other way  *)
(* (read_dir promises no order): the first call is left where it ended,    *)
(* returned, panicked or hanging, and the outcome is kept in prev          *)
(***************************************************************************)
Ended == pc \in {"done", "panic", "hang", "overflow"}

OtherOrder ==
    /\ call = 1
    /\ Ended
    /\ call' = 2
    /\ rev' = ~rev
    /\ prev' = [returned |-> result.returned, ok |-> result.ok,
                files |-> result.files, end |-> pc]
    /\ result' = NoResult
    /\ pc' = "start"
    /\ makefiles' = <<>>
    /\ makefile_sources' = <<>>
    /\ stack' = <<>>
    /\ UNCHANGED <<repo, program_name, norm, source_files, reads>>

OrderNext ==
    \/ Start
    \/ NextMakefile
    \/ MakefilePanic
    \/ MakefileHang
    \/ NextSeed
    \/ SeedsDone
    \/ ReturnOk
    \/ EnterVisited
    \/ EnterRead
    \/ EnterHang
    \/ EnterFail
    \/ ReadLine
    \/ Recurse
    \/ Return
    \/ Propagate
    \/ ReturnErr
    \/ OtherOrder

SpecOrder == Init /\ [][OrderNext]_vars

(***************************************************************************)
(* normalize_makefile run alone, line by line, on bounded fragments        *)
(***************************************************************************)
\* the largest number of physical lines of a generated fragment
NormMaxLines == 2

\* the physical lines: optional leading blank, optional text, optional
\* blank, none to two backslashes, optional trailing tab
NormLines ==
    {lead \o body \o mid \o bsl \o trail :
        lead \in {<<>>, <<SP>>}, body \in {<<>>, <<"a">>}, mid \in {<<>>, <<SP>>},
        bsl \in {<<>>, <<BSL>>, <<BSL, BSL>>}, trail \in {<<>>, <<TAB>>}}

\* `foo_SOURCES = a.c \` followed by `    b.c c.c`, and the single line
ExampleContinued ==
    << <<"f", "o", "o", "_", "S", "O", "U", "R", "C", "E", "S", " ", "=", " ", "a", ".", "c", " ", "\\">>,
       <<" ", " ", " ", " ", "b", ".", "c", " ", "c", ".", "c">> >>
ExampleSingle == << <<"f", "o", "o", "_", "S", "O", "U", "R", "C", "E", "S", " ", "=", " ", "a", ".", "c", " ", "b", ".", "c", " ", "c", ".", "c">> >>

NormInputs == SeqsUpTo(NormLines, NormMaxLines) \cup {ExampleContinued, ExampleSingle}

ResolverIdle ==
    /\ repo = {RootEntry}
    /\ program_name = <<>>
    /\ rev = FALSE
    /\ call = 0
    /\ prev = NoResult
    /\ pc = "idle"
    /\ source_files = <<>>
    /\ makefiles = <<>>
    /\ makefile_sources = <<>>
    /\ stack = <<>>
    /\ result = NoResult
    /\ reads = <<>>

NormInit ==
    /\ ResolverIdle
    /\ n_input \in NormInputs
    /\ n_rest = n_input
    /\ n_st = NormStart
    /\ n_pc = "loop"
    /\ n_out = <<>>

resolver == <<repo, program_name, rev, call, prev, pc, source_files, makefiles,
              makefile_sources, stack, result, reads>>

\* lines 209-219: the loop body on the next physical line
NormLine ==
    /\ n_pc = "loop"
    /\ n_rest # <<>>
    /\ n_st' = NormStep(n_st, Head(n_rest))
    /\ n_rest' = Tail(n_rest)
    /\ UNCHANGED <<resolver, n_input, n_pc, n_out>>

\* lines 221-225: the flush and the return
NormReturn ==
    /\ n_pc = "loop"
    /\ n_rest = <<>>
    /\ n_out' = NormFlush(n_st)
    /\ n_pc' = "returned"
    /\ UNCHANGED <<resolver, n_input, n_rest, n_st>>

NormNext ==
    \/ NormLine
    \/ NormReturn

SpecNorm == NormInit /\ [][NormNext]_vars

(***************************************************************************)
(* What the specification says the result is                               *)
(***************************************************************************)
Returned == pc = "done" /\ result.returned
ReturnedOk == Returned /\ result.ok
ReturnedErr == Returned /\ ~result.ok
ResultSet == Range(result.files)


\* the recognised fragments of a tree that can be read as files
Fragments(tree) ==
    {f \in tree : /\ EntryName(f) \in Range(FragmentNames)
                  /\ f.kind = "file"
                  /\ f.perm}

\* the logical lines of a fragment that contain <program>_SOURCES
MatchingLines(f, program) ==
    {line \in Range(normalize_makefile(f.lines)) :
        contains(line, sources_key(program))}

\* the source tokens of a logical line: its tokens after the first two
SourceTokens(line) == Range(skip(split_whitespace(line), 2))

\* the base name of a token or include target (<<>> when it has none)
BaseName(s) == file_name(s).val

\* the seed files: every entry whose name is the base name of a source token
\* of a matching line of a fragment
SeedEntries(tree, program) ==
    {e \in tree : \E f \in Fragments(tree) : \E line \in MatchingLines(f, program) :
        \E tok \in SourceTokens(line) : BaseName(tok) = EntryName(e)}

\* the quoted include targets of an entry's lines
IncludeTargets(e) ==
    {include_of(e.lines[i]).val : i \in {j \in 1..Len(e.lines) : include_of(e.lines[j]).some}}

\* e includes g: a line of e is `#include "<target>"` and g has the target's
\* base name (bare: only a target that is itself a bare file name counts)
Includes(tree, e, g, bare) ==
    \E target \in IncludeTargets(e) :
        /\ BaseName(target) = EntryName(g)
        /\ bare => target = EntryName(g)

\* the least set holding S and closed under Includes
RECURSIVE ClosureOf(_, _, _)
ClosureOf(tree, S, bare) ==
    LET more == S \cup {g \in tree : \E e \in S : Includes(tree, e, g, bare)}
    IN  IF more = S THEN S ELSE ClosureOf(tree, more, bare)

Rels(S) == {e.rel : e \in S}

\* the entries a walk from the repository gets to: those below directories
\* that can be listed only
Walkable(tree) ==
    {e \in tree : \A k \in 0..(Len(e.rel) - 1) :
        \E d \in tree : d.rel = SubSeq(e.rel, 1, k) /\ d.kind = "dir" /\ d.perm}

\* the seed files together with everything reachable from them through
\* quoted includes
SourceClosure(tree, program) ==
    LET walk == Walkable(tree)
    IN  Rels(ClosureOf(walk, SeedEntries(walk, program), FALSE))
SourceClosureByName(tree, program) ==
    LET walk == Walkable(tree)
    IN  Rels(ClosureOf(walk, SeedEntries(walk, program), TRUE))

\* C1: whenever get_c_source_files returns Ok, the returned set is exactly
\* the seed files together with every file reachable from a seed through a
\* chain of quoted #include lines.
C1_ExactClosure ==
    ReturnedOk => ResultSet = SourceClosure(repo, program_name)

\* the same with reachability through bare-name targets only
ExactClosureByName ==
    ReturnedOk => ResultSet = SourceClosureByName(repo, program_name)

(***************************************************************************)
(* Cycle safety                                                            *)
(***************************************************************************)
\* every base name a fragment token or an include line of the tree can ask
\* the walk for
AskedNames(tree) ==
    UNION {{BaseName(tok) : tok \in UNION {SourceTokens(line) :
                                line \in Range(normalize_makefile(e.lines))}}
           \cup {BaseName(target) : target \in IncludeTargets(e)} : e \in tree}

\* no directory of the tree carries a fragment's name or an asked name: the
\* resolver only ever reads regular files
ReadsFilesOnly(tree) ==
    \A e \in tree : e.kind = "dir" =>
        EntryName(e) \notin (Range(FragmentNames) \cup AskedNames(tree))

WalkRunning == pc \in {"walk", "raise"} /\ stack # <<>>

CycleResult ==
    (repo = CycleRepo /\ program_name = N_diff /\ Returned) =>
        (result.ok /\ ResultSet = {<<N_diff_c>>, <<N_util_h>>})

RECURSIVE Sum(_)
Sum(seq) == IF seq = <<>> THEN 0 ELSE seq[1] + Sum(Tail(seq))

MostLines(tree) ==
    LET ns == {Len(e.lines) : e \in tree} IN CHOOSE n \in ns : \A m \in ns : m <= n

\* a variant of the walk: the entries not yet in the set weigh most, then
\* the lines, then the matches, then the frames still to be worked off
WalkMeasure ==
    LET lineWeight == 2 * Cardinality(repo) + 1
        entryWeight == lineWeight * MostLines(repo) + 1
        FrameWeight(f) == 1 + lineWeight * Len(f.lines) + 2 * Len(f.paths)
    IN  entryWeight * (Cardinality(repo) - Len(source_files))
            + Sum([i \in 1..Len(stack) |-> FrameWeight(stack[i])])

\* C2: the walk collect_source_files terminates on every include graph,
\* cyclic or not: each of its steps lowers a natural-number variant, the
\* recursion is never deeper than the tree has entries, and on a tree of
\* regular files it is never left hanging or out of stack; for diff.c
\* including util.h including diff.c the call returns exactly
\* {diff.c, util.h}.
C2_CycleSafety ==
    /\ [](CycleResult)
    /\ [](WalkMeasure >= 0 /\ Len(stack) <= Cardinality(repo))
    /\ [](ReadsFilesOnly(repo) => pc \notin {"hang", "overflow"})
    /\ [][WalkRunning => WalkMeasure' < WalkMeasure]_vars

\* the call on the two-file cycle has returned both files
C2_Witness ==
    /\ repo = CycleRepo
    /\ program_name = N_diff
    /\ ReturnedOk
    /\ ResultSet = {<<N_diff_c>>, <<N_util_h>>}

(***************************************************************************)
(* No duplicates                                                           *)
(***************************************************************************)
NoDuplicates(seq) == \A i, j \in 1..Len(seq) : i # j => seq[i] # seq[j]

\* C3: in every state of a resolution and in the returned set each relative
\* path occurs at most once.
C3_NoDuplicates == NoDuplicates(source_files) /\ NoDuplicates(result.files)

\* three fragments declaring diff.c and util.c over and over, and two include
\* chains reaching util.h, have been resolved
C3_Witness ==
    /\ repo = OverlapRepo
    /\ program_name = N_diff
    /\ ReturnedOk
    /\ ResultSet = {<<N_diff_c>>, <<N_util_c>>, <<N_util_h>>}

(***************************************************************************)
(* Substring selection                                                     *)
(***************************************************************************)
\* C5: every logical line containing <program>_SOURCES anywhere is selected:
\* with diff_SOURCES = diff.c util.c and cmp_diff_SOURCES = other.c in one
\* fragment, "diff" also returns other.c and its closure, "cmp_diff" returns
\* only other.c's closure; and every seed of a matching line is returned.
C5_SubstringMatch ==
    ReturnedOk =>
        /\ Rels(SeedEntries(repo, program_name)) \subseteq ResultSet
        /\ (repo = CmpDiffRepo /\ program_name = N_diff) =>
               ResultSet = {<<N_diff_c>>, <<N_util_c>>, <<N_util_h>>, <<N_other_c>>}
        /\ (repo = CmpDiffRepo /\ program_name = N_cmp_diff) =>
               ResultSet = {<<N_other_c>>, <<N_util_h>>}

\* "diff" has been resolved on the fragment with both declarations
C5_Witness ==
    /\ repo = CmpDiffRepo
    /\ program_name = N_diff
    /\ ReturnedOk
    /\ <<N_other_c>> \in ResultSet

(***************************************************************************)
(* Empty result on no match                                                *)
(***************************************************************************)
\* no entry with a fragment's name has a logical line containing the key
NoMatch(tree, program) ==
    \A f \in tree : EntryName(f) \in Range(FragmentNames) =>
        MatchingLines(f, program) = {}

Outcome(r) == [ok |-> r.ok, files |-> Range(r.files)]

\* C7: the second call on the unchanged tree returns what the first returned,
\* and each call begins with the empty set.
C7_Idempotent ==
    /\ [](call = 2 => pc \notin {"panic", "hang", "overflow"})
    /\ []((call = 2 /\ Returned) => Outcome(result) = Outcome(prev))
    /\ [][pc = "start" => source_files' = <<>>]_vars

\* the second call has returned a non-empty set, the first one's
C7_Witness ==
    /\ call = 2
    /\ ReturnedOk
    /\ prev.ok
    /\ ResultSet # {}
    /\ ResultSet = Range(prev.files)

(***************************************************************************)
(* Fatal structural errors                                                 *)
(***************************************************************************)
\* a file the walk reached (it is in the set) that cannot be opened
ReachedUnopenable ==
    \E rel \in Range(source_files) : ~CanOpen(repo, Repository \o rel)

\* C8: once a reached file cannot be opened the call returns Err and no set;
\* while the Err propagates, one frame returns at each step and nothing else
\* is visited: no seed, no fragment, no file.
C8_FatalErrors ==
    /\ []((pc = "done" /\ ReachedUnopenable) => ReturnedErr)
    /\ [](ReturnedErr => result.files = <<>>)
    /\ [](ReachedUnopenable => pc \in {"raise", "done", "start"})
    /\ [][pc = "raise" =>
            /\ Len(stack') = Len(stack) - 1
            /\ pc' = IF stack' = <<>> THEN "done" ELSE "raise"
            /\ UNCHANGED <<source_files, makefiles, makefile_sources>>]_vars

\* Err has been returned with a seed and a fragment still to visit
C8_Witness ==
    /\ ReturnedErr
    /\ ReachedUnopenable
    /\ makefiles # <<>>
    /\ makefile_sources # <<>>

(***************************************************************************)
(* The extractor's error paths                                             *)
(***************************************************************************)
\* C9: the Source-List Extractor never raises a fatal error or aborts,
\* whatever the source tokens of a matching line are.
C9_ExtractorNeverAborts == pc # "panic"

(***************************************************************************)
(* Relative paths                                                          *)
(***************************************************************************)
IsAbsolute(path) == path # <<>> /\ path[1] = RootDir
HasRepositoryPrefix(path) ==
    Len(path) >= Len(Repository) /\ SubSeq(path, 1, Len(Repository)) = Repository

\* C10: every element of the returned set is relative, does not carry the
\* repository prefix, and names an entry of the tree.
C10_RelativePaths ==
    ReturnedOk =>
        \A rel \in ResultSet :
            /\ ~IsAbsolute(rel)
            /\ ~HasRepositoryPrefix(rel)
            /\ \E e \in repo : e.rel = rel /\ EntryPath(e) = Repository \o rel

\* a set with a file of a subdirectory has been returned
C10_Witness ==
    /\ ReturnedOk
    /\ <<N_sub, N_util_h>> \in ResultSet

(***************************************************************************)
(* Continuation correctness                                                *)
(***************************************************************************)
\* a physical line that ends with a backslash, trailing whitespace aside
Continued(line) == ends_with(trim_end(line), BSL)

\* one logical line written as physical lines joined by trailing backslashes
IsGroup(lines) ==
    /\ lines # <<>>
    /\ \A i \in 1..Len(lines) : Continued(lines[i]) <=> i < Len(lines)

\* a physical line without its trailing whitespace and its one continuation
\* backslash
TextBeforeBackslash(line) ==
    LET trimmed == trim_end(line)
    IN  IF Continued(line) THEN SubSeq(trimmed, 1, Len(trimmed) - 1) ELSE trimmed

\* a group each of whose continued lines ends with one backslash, not more
IsPlainGroup(lines) ==
    /\ IsGroup(lines)
    /\ \A i \in 1..Len(lines) : ~ends_with(TextBeforeBackslash(lines[i]), BSL)

\* a physical line without its trailing whitespace and every trailing
\* backslash
TextBeforeBackslashes(line) == trim_end_matches(trim_end(line), BSL)

\* the same content on a single line: the texts, one space between them
OnOneLine(texts) == JoinSp(texts)

Texts1(lines) == [i \in 1..Len(lines) |-> TextBeforeBackslash(lines[i])]
TextsAll(lines) == [i \in 1..Len(lines) |-> TextBeforeBackslashes(lines[i])]

\* at every break there is whitespace: before the backslashes of the
\* continued line, or at the start of the next physical line
Separated(lines) ==
    \A i \in 1..(Len(lines) - 1) :
        LET text == TextBeforeBackslashes(lines[i])
        IN  \/ text # <<>> /\ IsWhitespace(text[Len(text)])
            \/ lines[i + 1] # <<>> /\ IsWhitespace(lines[i + 1][1])

NormReturned == n_pc = "returned"

SelectionKeys == {<<"a">>, <<"a", "a">>, <<"f", "o", "o", "_", "S", "O", "U", "R", "C", "E", "S">>}

\* C4 as claimed: every logical line written as physical lines joined by
\* trailing backslashes yields the same source tokens as the same content
\* written on a single line.
C4_ContinuationAsClaimed ==
    (NormReturned /\ IsPlainGroup(n_input)) =>
        /\ Len(n_out) = 1
        /\ split_whitespace(n_out[1]) = split_whitespace(OnOneLine(Texts1(n_input)))

\* C4 as amended: normalize_makefile strips the trailing whitespace and every
\* trailing backslash of a continued line and concatenates without a
\* separator; when at every break there is whitespace before the backslashes
\* or at the start of the next physical line, the logical line has the tokens
\* of the same content on a single line, and contains the same keys.
C4_Continuation ==
    (NormReturned /\ IsGroup(n_input)) =>
        /\ n_out = <<Flatten(TextsAll(n_input))>>
        /\ Separated(n_input) =>
              /\ split_whitespace(n_out[1])
                    = split_whitespace(OnOneLine(TextsAll(n_input)))
              /\ \A key \in SelectionKeys :
                    contains(n_out[1], key) <=> contains(OnOneLine(TextsAll(n_input)), key)
        /\ n_input = ExampleContinued =>
              skip(split_whitespace(n_out[1]), 2)
                 = skip(split_whitespace(ExampleSingle[1]), 2)

\* `foo_SOURCES = a.c \` and `    b.c c.c` have been joined into one logical
\* line with the tokens of `foo_SOURCES = a.c b.c c.c`
C4_Witness ==
    /\ NormReturned
    /\ n_input = ExampleContinued
    /\ Len(n_out) = 1
    /\ split_whitespace(n_out[1]) = split_whitespace(ExampleSingle[1])

(***************************************************************************)
(* The recognised include syntax                                           *)
(***************************************************************************)
\* a line that is `#include "`, a name, and `"`, and nothing else
IsQuotedInclude(line) ==
    /\ Len(line) > Len(INCLUDE_PREFIX)
    /\ SubSeq(line, 1, Len(INCLUDE_PREFIX)) = INCLUDE_PREFIX
    /\ line[Len(line)] = QUOTE

\* the name between the quotes
QuotedName(line) == SubSeq(line, Len(INCLUDE_PREFIX) + 1, Len(line) - 1)

\* collect_source_files is about to take the next line of the file it reads
ReadingLine ==
    /\ pc = "walk"
    /\ stack # <<>>
    /\ Top.at = "lines"
    /\ Top.paths = <<>>
    /\ Top.lines # <<>>

\* a file of the set that has a line `#include "<name>"` with the name of rel
IncludedByVisited(rel) ==
    \E e \in repo :
        /\ e.rel \in Range(source_files)
        /\ \E i \in 1..Len(e.lines) :
              /\ IsQuotedInclude(e.lines[i])
              /\ rel # <<>>
              /\ QuotedName(e.lines[i]) = rel[Len(rel)]

\* C11: only a line of the literal form `#include "<name>"` drives the
\* closure: reading any other line (angle brackets, a macro, other text)
\* yields no path to recurse into and adds nothing to the set; every path of
\* the set is a seed or is named by a quoted include of a file of the set;
\* and a util.h that diff.c refers to with angle brackets, a macro or a
\* quoted include that is not the whole line is not in the result.
C11_QuotedIncludesOnly ==
    /\ [][(ReadingLine /\ ~IsQuotedInclude(Head(Top.lines))) =>
             /\ Len(stack') = Len(stack)
             /\ stack'[Len(stack)].paths = <<>>
             /\ source_files' = source_files]_vars
    /\ [](\A rel \in Range(source_files) :
             \/ rel \in Rels(SeedEntries(Walkable(repo), program_name))
             \/ IncludedByVisited(rel))
    /\ []((repo = AngleRepo /\ program_name = N_diff /\ Returned) =>
             (result.ok /\ ResultSet = {<<N_diff_c>>}))

\* diff.c with its angle-bracket include of util.h has been resolved, and
\* util.h is not in the set
C11_Witness ==
    /\ repo = AngleRepo
    /\ program_name = N_diff
    /\ ReturnedOk
    /\ <<N_diff_c>> \in ResultSet
    /\ <<N_util_h>> \notin ResultSet
    /\ reads = <<Repository \o <<N_diff_c>>>>

(***************************************************************************)
(* The Locator                                                             *)
(***************************************************************************)
\* the paths at or below the repository, at any depth, whose final component
\* is name, the entries below a directory that cannot be listed left out
Located(tree, name) ==
    {EntryPath(e) : e \in {x \in Walkable(tree) : EntryName(x) = name}}

LocatedAll(tree, names) == UNION {Located(tree, names[i]) : i \in 1..Len(names)}

\* names the Locator is asked for: of files, of directories, of the
\* repository itself, of nothing, and a path that is not a name
LocatorNames ==
    { N_util_h, N_Util_h, N_util_hpp, N_sub, N_locked, N_sub_util_h,
      MAKEFILE_AM, N_makefile_am, Repository[Len(Repository)], <<>>, <<"u">> }

\* C12: find_file(name, repository) returns exactly the paths at or below
\* the repository, at any depth, whose final component is name (the case and
\* every character counting), each once; what lies below a directory that
\* cannot be listed is left out and no error is raised; the tree is left as
\* it was. Checked where the resolver calls it (for the fragment names and
\* for an include target) and, as a call begins, for a set of names.
C12_LocatorContract ==
    /\ [](pc = "start" =>
             \A name \in LocatorNames :
                 /\ Range(find_file(name, repo, rev)) = Located(repo, name)
                 /\ NoDuplicates(find_file(name, repo, rev)))
    /\ [][pc = "start" =>
             /\ Range(makefiles') = LocatedAll(repo, FragmentNames)
             /\ NoDuplicates(makefiles')
             /\ pc' = "fragments"]_vars
    /\ [][(ReadingLine /\ IsQuotedInclude(Head(Top.lines))) =>
             /\ Len(stack') = Len(stack)
             /\ Range(stack'[Len(stack)].paths)
                   = Located(repo, QuotedName(Head(Top.lines)))
             /\ NoDuplicates(stack'[Len(stack)].paths)
             /\ pc' = "walk"]_vars
    /\ [][repo' = repo]_vars

\* util.h has been located at the top and two directories down, and not as
\* Util.h, util.hpp or xutil.h, nor inside the directory that cannot be
\* listed
C12_Witness ==
    /\ repo = LocatorRepo
    /\ program_name = N_diff
    /\ ReturnedOk
    /\ ResultSet = {<<N_diff_c>>, <<N_util_h>>, <<N_sub, N_sub, N_util_h>>}
    /\ Located(repo, N_locked) = {Repository \o <<N_locked>>}

(***************************************************************************)
(* The recognised fragment names                                           *)
(***************************************************************************)
\* the entries named exactly Makefile.am, local.mk or Makemodule.am
NamedAsFragment(tree) ==
    {f \in tree : EntryName(f) \in {MAKEFILE_AM, LOCAL_MK, MAKEMODULE_AM}}

\* the tree without the files that carry a declaration under another name
OnlyFragmentsAndSources(tree) ==
    {e \in tree : e \in NamedAsFragment(tree) \/ MatchingLines(e, program_name) = {}}

\* C13: only entries named exactly Makefile.am, local.mk or Makemodule.am are
\* taken as fragments and read for seeds: the list of fragments holds those
\* and no other, every fragment read is one of them, every seed comes from a
\* matching line of one of them, and a <program>_SOURCES declaration in
\* makefile.am, Makefile or Makefile.am.in contributes nothing: the result is
\* what it is without those files.
C13_FragmentNamesOnly ==
    /\ [](\A i \in 1..Len(makefiles) :
             \E f \in NamedAsFragment(repo) : makefiles[i] = EntryPath(f))
    /\ [][(pc = "fragments" /\ pc' = "seeds") =>
             \A i \in 1..Len(makefile_sources') :
                 \E e \in SeedEntries(Walkable(repo), program_name) :
                     makefile_sources'[i] = EntryPath(e)]_vars
    /\ [](ReturnedOk =>
             ResultSet = SourceClosureByName(OnlyFragmentsAndSources(repo), program_name))
    /\ []((repo = OtherNamesRepo /\ Returned) => (result.ok /\ result.files = <<>>))

\* the tree whose only declarations are in makefile.am, Makefile and
\* Makefile.am.in has been resolved, and nothing was read
C13_Witness ==
    /\ repo = OtherNamesRepo
    /\ program_name = N_diff
    /\ ReturnedOk
    /\ result.files = <<>>
    /\ reads = <<>>
    /\ \E e \in repo : e \notin NamedAsFragment(repo) /\ MatchingLines(e, program_name) # {}

(***************************************************************************)
(* The lookup of an include target                                         *)
(***************************************************************************)
\* C14: for every include target, one with a directory component such as
\* `#include "sub/util.h"` too, the walker asks the Locator for the target's
\* base name and recurses into every match, so that every file of that base
\* name in the tree is in the returned closure.
C14_IncludeByBaseName ==
    /\ [][(ReadingLine /\ IsQuotedInclude(Head(Top.lines))) =>
             /\ Len(stack') = Len(stack)
             /\ Range(stack'[Len(stack)].paths)
                   = Located(repo, BaseName(QuotedName(Head(Top.lines))))]_vars
    /\ [](ReturnedOk =>
             \A e \in Walkable(repo) : \A g \in Walkable(repo) :
                 (e.rel \in ResultSet /\ Includes(repo, e, g, FALSE)) => g.rel \in ResultSet)

(***************************************************************************)
(* The tokens of a declaration                                             *)
(***************************************************************************)
\* where the first `=` of a line is (0: nowhere)
AssignAt(line) ==
    IF \E i \in 1..Len(line) : line[i] = "="
    THEN CHOOSE i \in 1..Len(line) :
            line[i] = "=" /\ \A j \in 1..(i - 1) : line[j] # "="
    ELSE 0

\* the declared source files of a line `<variable> = ...` or `<variable> +=
\* ...`: the whitespace-separated words after the assignment operator
DeclaredSources(line) ==
    IF AssignAt(line) = 0 THEN {}
    ELSE Range(split_whitespace(SubSeq(line, AssignAt(line) + 1, Len(line))))

\* the entries named by the declared sources of the matching lines
DeclaredSeedEntries(tree, program) ==
    {e \in tree : \E f \in Fragments(tree) : \E line \in MatchingLines(f, program) :
        \E tok \in DeclaredSources(line) : BaseName(tok) = EntryName(e)}

\* the fragment the loop of line 60 takes next
NextFragment == CHOOSE f \in repo : EntryPath(f) = Head(makefiles)

\* the paths of the entries named by the declared sources of the fragment's
\* matching lines
DeclaredPaths(tree, f, program) ==
    IF f \notin Fragments(tree) THEN {}
    ELSE {EntryPath(e) : e \in {x \in Walkable(tree) :
             \E line \in MatchingLines(f, program) :
                 \E tok \in DeclaredSources(line) : BaseName(tok) = EntryName(x)}}

\* C15: for every spacing of the assignment (`diff_SOURCES = diff.c util.c`,
\* `diff_SOURCES=diff.c util.c`, `diff_SOURCES =diff.c util.c`,
\* `diff_SOURCES += diff.c util.c`) the files the extractor returns for a
\* fragment are those named by the declared sources of its matching lines,
\* none lost and none for the variable name or the operator, and all of them
\* are in the returned set.
C15_TokensOfEverySpacing ==
    /\ [][(pc = "fragments" /\ makefiles # <<>> /\ pc' = "seeds") =>
             Range(makefile_sources') = DeclaredPaths(repo, NextFragment, program_name)]_vars
    /\ [](ReturnedOk =>
             Rels(DeclaredSeedEntries(Walkable(repo), program_name)) \subseteq ResultSet)

(***************************************************************************)
(* The lookup of a source token                                            *)
(***************************************************************************)
\* every source token of the fragment's matching lines has a base name
TokensNamed(f, program) ==
    \A line \in MatchingLines(f, program) : \A tok \in SourceTokens(line) :
        file_name(tok).some

\* the paths of all entries that carry the base name of a source token of a
\* matching line of the fragment
TokenPaths(tree, f, program) ==
    UNION {Located(tree, BaseName(tok)) :
             tok \in UNION {SourceTokens(line) : line \in MatchingLines(f, program)}}

\* C16: a source token is looked up by its base name, the directory written
\* before it discarded, and every entry of the repository with that base
\* name becomes a seed: none for a token that matches no file, all for a
\* token that matches several, and the extractor returns without an error.
\* With `diff_SOURCES = src/diff.c missing.c util.h`, diff.c at the top and
\* util.h at the top and in sub, the result is {diff.c, util.h, sub/util.h}.
C16_BaseNameSeeds ==
    /\ [][(/\ pc = "fragments"
           /\ makefiles # <<>>
           /\ NextFragment \in Fragments(repo)
           /\ TokensNamed(NextFragment, program_name)) =>
             /\ pc' = "seeds"
             /\ Range(makefile_sources') = TokenPaths(repo, NextFragment, program_name)]_vars
    /\ []((repo = PrefixRepo /\ program_name = N_diff /\ Returned) =>
             /\ result.ok
             /\ ResultSet = {<<N_diff_c>>, <<N_util_h>>, <<N_sub, N_util_h>>})

\* the declaration with a prefixed token, a token without a file and a token
\* with two files has been resolved
C16_Witness ==
    /\ repo = PrefixRepo
    /\ program_name = N_diff
    /\ ReturnedOk
    /\ ResultSet = {<<N_diff_c>>, <<N_util_h>>, <<N_sub, N_util_h>>}
    /\ Located(repo, N_missing_c) = {}

(***************************************************************************)
(* The flush of a trailing continuation                                    *)
(***************************************************************************)
\* the number of continuation groups of a fragment: one per physical line
\* that ends a group, and one more for a last line that ends with a backslash
NumGroups(lines) ==
    Cardinality({i \in 1..Len(lines) : ~Continued(lines[i])})
        + (IF lines # <<>> /\ Continued(lines[Len(lines)]) THEN 1 ELSE 0)

\* the physical lines of the last group
LastGroup(lines) ==
    LET ends == {i \in 1..(Len(lines) - 1) : ~Continued(lines[i])}
        from == IF ends = {} THEN 1
                ELSE 1 + (CHOOSE i \in ends : \A j \in ends : j <= i)
    IN  SubSeq(lines, from, Len(lines))

\* the last physical line ends with a backslash and no line follows
Unterminated(lines) == lines # <<>> /\ Continued(lines[Len(lines)])

\* C17: whenever the last physical line of a fragment ends with a backslash,
\* the accumulated text is appended as a final logical line: there are as
\* many logical lines as continuation groups, and the last one is the text
\* of the unterminated group.
C17_FlushTrailing ==
    (NormReturned /\ Unterminated(n_input)) =>
        /\ Len(n_out) = NumGroups(n_input)
        /\ n_out[Len(n_out)] = Flatten(TextsAll(LastGroup(n_input)))

(***************************************************************************)
(* An unreadable fragment                                                  *)
(***************************************************************************)
\* the tree without its fragments that cannot be opened
WithoutLocked(tree) == tree \ LockedFragments(tree)

\* what resolving a tree comes to: Err when a file of the closure cannot be
\* opened, and the closure otherwise
ResolvedByName(tree, program) ==
    LET closure == SourceClosureByName(tree, program)
        failed == \E rel \in closure : ~CanOpen(tree, Repository \o rel)
    IN  [ok |-> ~failed, files |-> IF failed THEN {} ELSE closure]

\* C18: a located fragment that cannot be opened is absorbed: the extractor
\* returns the empty list for it, the loop goes on with the remaining
\* fragments and the set as it is, and what the call returns is what it
\* returns on the same repository without that fragment (the repositories
\* with and without it both return the outcome ResolvedByName of the tree
\* without it): Ok with the sources of the other fragment, not Err.
C18_UnreadableFragmentAbsorbed ==
    /\ [][(pc = "fragments" /\ makefiles # <<>> /\ ~CanOpen(repo, Head(makefiles))) =>
             /\ pc' = "seeds"
             /\ makefile_sources' = <<>>
             /\ makefiles' = Tail(makefiles)
             /\ source_files' = source_files]_vars
    /\ [](Returned =>
             Outcome(result) = ResolvedByName(WithoutLocked(repo), program_name))
    /\ []((repo \in {LockedFragmentRepo, WithoutLocked(LockedFragmentRepo)}
              /\ program_name = N_diff /\ Returned) =>
             (result.ok /\ ResultSet = {<<N_util_c>>}))
    /\ []((repo \in {LockedLocalMkRepo, WithoutLocked(LockedLocalMkRepo)}
              /\ program_name = N_diff /\ Returned) =>
             (result.ok /\ ResultSet = {<<N_diff_c>>}))

\* the call has returned Ok on the tree whose Makefile.am cannot be opened,
\* with the source that local.mk declares
C18_Witness ==
    /\ repo = LockedFragmentRepo
    /\ LockedFragments(repo) # {}
    /\ program_name = N_diff
    /\ ReturnedOk
    /\ ResultSet = {<<N_util_c>>}

(***************************************************************************)
(* Order independence                                                      *)
(***************************************************************************)
\* C19: the outcome of get_c_source_files, the returned set or the fact that
\* it is an error, is the same for every order in which find_file returns
\* its matches: the call made with the directories listed the other way ends
\* as the first call ended, with the same set.
C19_OrderIndependence ==
    (call = 2 /\ Ended) =>
        /\ pc = prev.end
        /\ Outcome(result) = Outcome(prev)

(***************************************************************************)
(* The guard of the Visited Set                                            *)
(***************************************************************************)
IsPrefix(s, t) == Len(s) <= Len(t) /\ SubSeq(t, 1, Len(s)) = s

\* collect_source_files has just been called on a path that is in the set
EnteringVisited ==
    /\ pc = "walk"
    /\ stack # <<>>
    /\ Top.at = "enter"
    /\ strip_prefix(Top.root, Repository).ok
    /\ strip_prefix(Top.root, Repository).val \in Range(source_files)

\* C20: during one resolution the set only grows: every step but the one
\* that begins a call leaves each path of the set in it; a call of
\* collect_source_files on a path that is in the set returns at once, the
\* file not opened, nothing recursed into, the set as it was; and no file is
\* opened for reading twice in one resolution, each file read being in the
\* set.
C20_VisitedGuard ==
    /\ [][pc # "start" => IsPrefix(source_files, source_files')]_vars
    /\ [][EnteringVisited =>
             /\ stack' = Pop
             /\ pc' = (IF Len(stack) = 1 THEN "seeds" ELSE "walk")
             /\ source_files' = source_files
             /\ reads' = reads]_vars
    /\ [](NoDuplicates(reads))
    /\ [](\A i \in 1..Len(reads) :
             strip_prefix(reads[i], Repository).val \in Range(source_files))

\* diff.c and util.h, each including the other way round, have been read
\* once each, the second call on diff.c having returned at the guard
C20_Witness ==
    /\ repo = CycleRepo
    /\ program_name = N_diff
    /\ ReturnedOk
    /\ reads = <<Repository \o <<N_diff_c>>, Repository \o <<N_util_h>>>>
    /\ Len(source_files) = 2

(***************************************************************************)
(* General termination                                                     *)
(***************************************************************************)
\* an entry that is a directory and carries a name the resolver opens: a
\* fragment's name, a source token's base name or an include target
DirectoryAsked(tree) ==
    \E e \in Walkable(tree) :
        /\ e.kind = "dir"
        /\ e.perm
        /\ EntryName(e) \in (Range(FragmentNames) \cup AskedNames(tree))

\* C21: on every finite tree and for every program name get_c_source_files
\* returns, Ok or Err, also when a fragment name, a source token's base name
\* or an include name matches a directory: the call is never left reading
\* the lines of a directory, which yield an error at every read and no end.
C21_AlwaysReturns == pc # "hang"

====
